---- MODULE Spec2Model ----
(***************************************************************************)
(* NSIM payment network: the payment state machine of PaymentService, the  *)
(* BsimClient result mapping it relies on, the repository it persists to   *)
(* and the expiry scan that calls expireAuthorization.                     *)
(*                                                                         *)
(* Every handler is an async function: it runs atomically between two      *)
(* awaits.  capture, void, refund and expireAuthorization read the         *)
(* transaction (findById), then await the issuer and the repository        *)
(* update; other handlers run while they are suspended.  A handler is      *)
(* therefore two steps: Begin (read, guard, locals) and Finish (issuer     *)
(* response, update, notification, return).                                *)
(***************************************************************************)
EXTENDS Integers, Sequences, FiniteSets, Bags, TLC

\* ---------------------------------------------------------------- bounds
NumTx == 1
MaxAmount == 2
NumCalls == 2
MaxOps == 4
MaxTime == 1
\* config.bsimRetry.maxRetries
maxRetries == 2
MaxWebhooks == 2
MaxJobs == 2

\* config.authorizationExpiryHours, in units of the clock.
authorizationExpiryHours == 1

\* config.bsimRetry.retryDelayMs
retryDelayMs == 3

\* config.webhook.maxRetries and config.webhook.retryDelayMs (defaults).
webhookMaxRetries == 5
webhookRetryDelayMs == 1000

TxIds == 1..NumTx
NoAmount == -1
Amounts == {MaxAmount}
RequestAmounts == {NoAmount, 1, MaxAmount + 1}

EventTypes == {"payment.authorized", "payment.captured", "payment.voided",
               "payment.refunded", "payment.declined", "payment.expired",
               "payment.failed"}
IssuerOps == {"authorize", "capture", "void", "refund"}

VARIABLES
  txs,            \* repository: transaction id -> stored PaymentTransaction
  now,            \* the clock
  inflight,       \* bag of the inbound calls suspended at their issuer call
  resp,           \* the response returned last
  mon,            \* the expiry scan: position, remaining list, snapshot
  issuerCalls,    \* BsimClient calls made, per transaction and operation
  raised,         \* sendWebhookNotification calls, per transaction and event
  acceptedRefunds,\* history: sum of the refund amounts the issuer accepted
  nOps,           \* number of inbound calls that reached the issuer
  sentTo,         \* history: the gateways a transaction's issuer calls went to
  bsimClients,    \* PaymentService.bsimClients: the registered issuer ids
  gw,             \* a gateway call: its makeRequest loop and its result
  webhooks,       \* WebhookRepository: the registered endpoints
  jobs,           \* the webhook queue: its jobs, one per job id
  uuids,          \* the number of payload ids randomUUID() has handed out
  delivery,       \* the last HTTP request the webhook worker sent
  notified,       \* the sendWebhookNotification calls that have run to their end
  sys             \* the process: server, timers, workers, queues, connection

\* The state of the payment handlers and the expiry scan, and the state they
\* only read or leave alone.
payments == <<txs, now, inflight, resp, mon, issuerCalls, raised,
              acceptedRefunds, nOps, sentTo>>
hooks == <<webhooks, jobs, uuids, delivery, notified>>
aside == <<bsimClients, gw, hooks, sys>>

vars == <<txs, now, inflight, resp, mon, issuerCalls, raised, acceptedRefunds,
          nOps, sentTo, aside>>

\* ------------------------------------------------------------ repository
NoTx == [status |-> "none", amount |-> 0, capturedAmount |-> 0,
         refundedAmount |-> 0, authorizationCode |-> "none",
         declineReason |-> "none", expiresAt |-> 0, bsimId |-> "none"]

findById(id) == txs[id]

\* Partial update: the fields present in data replace the stored ones; the
\* row is selected by id alone.
update(id, data) ==
  [txs EXCEPT ![id] = [f \in DOMAIN txs[id] |->
                         IF f \in DOMAIN data THEN data[f] ELSE txs[id][f]]]

\* create that leaves the bsimId column out.
create_WithoutBsimId(id, transaction) ==
  [txs EXCEPT ![id] = [transaction EXCEPT !.bsimId = "none"]]

create(id, transaction) == [txs EXCEPT ![id] = transaction]

\* The scan query with its comparison turned round.
findExpiredAuthorizations_NotYetDue ==
  {t \in TxIds : txs[t].status = "authorized" /\ txs[t].expiresAt > now}

findExpiredAuthorizations ==
  {t \in TxIds : txs[t].status = "authorized" /\ txs[t].expiresAt <= now}

\* --------------------------------------------------------------- gateway
\* What the issuer exchange ends in, after makeRequest's retries.  A capture,
\* void or refund that fails reaches the service as success:false whatever
\* the cause.
AuthorizeOutcomes == {"approved", "declined", "neterr"}
MutationOutcomes == {"success", "failure"}

\* The answers of the issuer's /authorize, whose authorizationCode field is
\* optional: the outcomes above and an approval that carries no code.
IssuerAnswers == AuthorizeOutcomes \cup {"approved, no code"}

\* BsimClient.authorize: every failure of makeRequest is caught and turned
\* into approved:false with the error message as decline reason.
BsimAuthorize(o) ==
  CASE o = "approved" -> [threw |-> FALSE, approved |-> TRUE,
                          authorizationCode |-> "code", declineReason |-> "none"]
    [] o = "approved, no code" -> [threw |-> FALSE, approved |-> TRUE,
                          authorizationCode |-> "none", declineReason |-> "none"]
    [] o = "declined" -> [threw |-> FALSE, approved |-> FALSE,
                          authorizationCode |-> "none", declineReason |-> "issuer"]
    [] OTHER          -> [threw |-> FALSE, approved |-> FALSE,
                          authorizationCode |-> "none", declineReason |-> "BSIM request failed"]

\* capture, void and refund that let the request's failure through.
BsimMutate_Rethrows(o) ==
  CASE o = "success" -> [threw |-> FALSE, success |-> TRUE, error |-> "none"]
    [] OTHER         -> [threw |-> TRUE, success |-> FALSE, error |-> "BSIM request failed"]

\* BsimClient.capture / void / refund: same shape.
BsimMutate(o) ==
  CASE o = "success" -> [threw |-> FALSE, success |-> TRUE, error |-> "none"]
    [] OTHER         -> [threw |-> FALSE, success |-> FALSE, error |-> "BSIM request failed"]

\* BsimClient.validateToken: response.valid, or false when the request failed.
BsimValidate(o) == [threw |-> FALSE, valid |-> o = "success"]

\* ------------------------------------------------------ gateway requests
\* What one fetch ends in: a response (status, body text) or a rejection
\* (error name, message text).  The bodies "yes" and "no" are JSON carrying
\* approved / success:true / valid:true and their negations.
HttpResults ==
  {[name |-> "response", status |-> 200, text |-> "yes"],
   [name |-> "response", status |-> 200, text |-> "no"],
   [name |-> "response", status |-> 200, text |-> "<html>"],
   [name |-> "response", status |-> 404, text |-> "Not Found"],
   [name |-> "response", status |-> 404, text |-> "Cannot POST /api/payment-network"],
   [name |-> "response", status |-> 503, text |-> "Service Unavailable"],
   [name |-> "TypeError", status |-> 0, text |-> "fetch failed"],
   [name |-> "TypeError", status |-> 0, text |-> "Invalid URL"]}

GatewayOps == {"authorize", "capture", "void", "refund", "validateToken"}

\* The substrings isRetryableError looks for that a text contains.
Needles(text) ==
  CASE text = "Cannot POST /api/payment-network" -> {"network"}
    [] text = "fetch failed" -> {"fetch"}
    [] OTHER -> {}

\* new Error(`BSIM request failed: ${response.status} ${errorText}`)
requestFailed(h) == [name |-> "Error", status |-> h.status, text |-> h.text]

\* isRetryableError: a fetch TypeError, a message with "BSIM request failed:
\* 5xx" (status carries the number of the message), or a network word
\* anywhere in the message.
isRetryableError(error) ==
  \/ error.name = "TypeError" /\ "fetch" \in Needles(error.text)
  \/ error.status \in 500..599
  \/ Needles(error.text) \cap {"ECONNREFUSED", "ETIMEDOUT", "ENOTFOUND",
                               "socket hang up", "network"} # {}

\* The backoff counted from the attempt index instead of the retry number.
retryDelay_FromAttempt(attempt) == retryDelayMs * 2 ^ attempt

\* baseDelay * Math.pow(2, attempt - 1)
retryDelay(attempt) == retryDelayMs * 2 ^ (attempt - 1)

NoRequest == [pc |-> "idle", op |-> "none", attempt |-> 0, delays |-> <<>>,
              seen |-> <<>>, result |-> [threw |-> FALSE, ok |-> FALSE]]

\* What the method makes of the end of makeRequest: the issuer's answer, or
\* the caught failure.
gatewayResult(op, h) ==
  LET parsed == h.name = "response" /\ h.status \in 200..299 /\ h.text \in {"yes", "no"}
      o == IF ~parsed THEN "neterr"
           ELSE IF h.text = "yes" THEN (IF op = "authorize" THEN "approved" ELSE "success")
           ELSE (IF op = "authorize" THEN "declined" ELSE "failure")
  IN IF op = "authorize"
     THEN [threw |-> BsimAuthorize(o).threw, ok |-> BsimAuthorize(o).approved]
     ELSE IF op = "validateToken"
     THEN [threw |-> BsimValidate(o).threw, ok |-> BsimValidate(o).valid]
     ELSE [threw |-> BsimMutate(o).threw, ok |-> BsimMutate(o).success]

\* A gateway method is called and enters makeRequest.
gatewayCall(op) ==
  /\ gw.pc = "idle"
  /\ gw' = [NoRequest EXCEPT !.pc = "request", !.op = op]
  /\ UNCHANGED <<payments, sys, bsimClients, hooks>>

\* One iteration of makeRequest's loop, the fetch ending in h: the backoff
\* delay, the fetch, and either the next iteration or the end of the method.
makeRequest(h) ==
  /\ gw.pc = "request"
  /\ LET attempt == gw.attempt
         delays == IF attempt > 0 THEN Append(gw.delays, retryDelay(attempt))
                   ELSE gw.delays
         failed == h.name = "response" /\ ~(h.status \in 200..299)
         again == IF h.name # "response"
                  THEN isRetryableError(h) /\ attempt < maxRetries
                  ELSE /\ failed
                       /\ \/ h.status >= 500 /\ attempt < maxRetries
                          \/ isRetryableError(requestFailed(h)) /\ attempt < maxRetries
     IN gw' = IF again
              THEN [gw EXCEPT !.attempt = attempt + 1, !.delays = delays,
                              !.seen = Append(gw.seen, h)]
              ELSE [gw EXCEPT !.pc = "done", !.delays = delays,
                              !.seen = Append(gw.seen, h),
                              !.result = gatewayResult(gw.op, h)]
  /\ UNCHANGED <<payments, sys, bsimClients, hooks>>

NextGateway ==
  \/ \E op \in GatewayOps : gatewayCall(op)
  \/ \E h \in HttpResults : makeRequest(h)

\* --------------------------------------------------------------- routing
\* config.defaultBsimId.
defaultBsimId == "bsim"

\* The sets of issuer ids a configuration can register (BSIM_PROVIDERS may
\* leave the default out, or be empty).
Registries == {{"bsim", "newbank"}, {"bsim"}, {"newbank"}, {}}

\* A card token is a string, kept as the sequence of its maximal runs: "_",
\* ".", a run of [a-z] (LetterRuns), a run of [a-z0-9] (LowerRuns) or any
\* other run (base64 text, garbage).
LetterRuns == {"wsim", "ctok", "bsim", "newbank", "other", "xyz", "sig"}
LowerRuns == LetterRuns \cup {"abc123"}

\* Base64 runs and the JSON they decode to: {"bsimId":"newbank"},
\* {"bsimId":"bsim"}, {"type":"wallet_payment_token"} and null.
JsonOf ==
  [x \in {"eyJic2ltSWQiOiJuZXdiYW5rIn0=", "eyJic2ltSWQiOiJic2ltIn0=",
          "eyJ0eXBlIjoid2FsbGV0X3BheW1lbnRfdG9rZW4ifQ==", "bnVsbA=="} |->
     CASE x = "eyJic2ltSWQiOiJuZXdiYW5rIn0=" -> [isObject |-> TRUE, bsimId |-> "newbank"]
       [] x = "eyJic2ltSWQiOiJic2ltIn0=" -> [isObject |-> TRUE, bsimId |-> "bsim"]
       [] x = "eyJ0eXBlIjoid2FsbGV0X3BheW1lbnRfdG9rZW4ifQ==" -> [isObject |-> TRUE, bsimId |-> "none"]
       [] OTHER -> [isObject |-> FALSE, bsimId |-> "none"]]

\* wsim_newbank_abc123, wsim_other_abc123, a wsim_newbank_ token with three
\* dot-delimited segments claiming bsim, ctok_xyz, a ctok_ token with three
\* segments claiming newbank, three-segment tokens claiming newbank, claiming
\* nothing, holding null and holding no JSON, the empty string, and
\* wsim_newbank (no second underscore).
ConsentToken == <<"ctok", "_", "xyz">>

CardTokens ==
  {<<"wsim", "_", "newbank", "_", "abc123">>,
   <<"wsim", "_", "other", "_", "abc123">>,
   <<"wsim", "_", "newbank", "_", "abc123", ".", "eyJic2ltSWQiOiJic2ltIn0=", ".", "sig">>,
   ConsentToken,
   <<"ctok", "_", "xyz", ".", "eyJic2ltSWQiOiJuZXdiYW5rIn0=", ".", "sig">>,
   <<"eyJhbGciOiJIUzI1NiJ9", ".", "eyJic2ltSWQiOiJuZXdiYW5rIn0=", ".", "sig">>,
   <<"eyJhbGciOiJIUzI1NiJ9", ".", "eyJ0eXBlIjoid2FsbGV0X3BheW1lbnRfdG9rZW4ifQ==", ".", "sig">>,
   <<"eyJhbGciOiJIUzI1NiJ9", ".", "bnVsbA==", ".", "sig">>,
   <<"eyJhbGciOiJIUzI1NiJ9", ".", "%%%", ".", "sig">>,
   <<>>,
   <<"wsim", "_", "newbank">>}

\* cardToken.match(/^(wsim_([a-z0-9]+)_)/)
wsimMatch(cardToken) ==
  /\ Len(cardToken) >= 4
  /\ cardToken[1] = "wsim" /\ cardToken[2] = "_"
  /\ cardToken[3] \in LowerRuns /\ cardToken[4] = "_"

\* cardToken.match(/^([a-z_]+_)/): the longest prefix of letters and
\* underscores that ends in an underscore; 0 when there is none.
prefixMatch(cardToken) ==
  LET ends == {k \in 2..Len(cardToken) :
                 /\ cardToken[k] = "_"
                 /\ \A i \in 1..k : cardToken[i] \in LetterRuns \cup {"_"}}
  IN IF ends = {} THEN 0 ELSE CHOOSE k \in ends : \A j \in ends : j <= k

\* cardToken.split('.')
RECURSIVE split(_)
split(cardToken) ==
  LET dots == {i \in 1..Len(cardToken) : cardToken[i] = "."}
  IN IF dots = {} THEN <<cardToken>>
     ELSE LET d == CHOOSE i \in dots : \A j \in dots : i <= j
          IN <<SubSeq(cardToken, 1, d - 1)>>
               \o split(SubSeq(cardToken, d + 1, Len(cardToken)))

\* JSON.parse(Buffer.from(segment, 'base64')) and the reads of the payload:
\* anything but an object makes the try block throw.
decodePayload(segment) ==
  IF Len(segment) = 1 /\ segment[1] \in DOMAIN JsonOf /\ JsonOf[segment[1]].isObject
  THEN [ok |-> TRUE, bsimId |-> JsonOf[segment[1]].bsimId]
  ELSE [ok |-> FALSE, bsimId |-> "none"]

\* analyzeCardToken with the JWT rule able to replace the prefix's issuer id.
analyzeCardToken_ClaimOverrides(cardToken) ==
  LET k == prefixMatch(cardToken)
      jwtParts == split(cardToken)
      payload == IF Len(jwtParts) = 3 THEN decodePayload(jwtParts[2])
                 ELSE [ok |-> FALSE, bsimId |-> "none"]
  IN [prefix |-> IF wsimMatch(cardToken) THEN SubSeq(cardToken, 1, 4)
                 ELSE SubSeq(cardToken, 1, k),
      bsimId |-> IF payload.ok /\ payload.bsimId # "none" THEN payload.bsimId
                 ELSE IF wsimMatch(cardToken) THEN cardToken[3]
                 ELSE "none",
      isJwt |-> Len(jwtParts) = 3]

\* analyzeCardToken: prefix, bsimId ("none" for null) and isJwt.
analyzeCardToken(cardToken) ==
  LET k == prefixMatch(cardToken)
      prefix == IF wsimMatch(cardToken) THEN SubSeq(cardToken, 1, 4)
                ELSE SubSeq(cardToken, 1, k)
      fromPrefix == IF wsimMatch(cardToken) THEN cardToken[3]
                    ELSE IF prefix = <<"wsim", "_", "bsim", "_">> THEN "bsim"
                    ELSE "none"
      jwtParts == split(cardToken)
      payload == IF Len(jwtParts) = 3 THEN decodePayload(jwtParts[2])
                 ELSE [ok |-> FALSE, bsimId |-> "none"]
  IN [prefix |-> prefix,
      bsimId |-> IF payload.ok /\ payload.bsimId # "none" /\ fromPrefix = "none"
                 THEN payload.bsimId ELSE fromPrefix,
      isJwt |-> Len(jwtParts) = 3]

\* BsimRegistry.extractBsimIdFromToken: the wsim_ pattern, then the ctok_
\* prefix (the default issuer, whatever follows), then for a token with a dot
\* the bsimId claim of a three-segment token, else the default issuer.
extractBsimIdFromToken(cardToken) ==
  LET parts == split(cardToken)
      payload == IF Len(parts) = 3 THEN decodePayload(parts[2])
                 ELSE [ok |-> FALSE, bsimId |-> "none"]
  IN IF wsimMatch(cardToken) THEN cardToken[3]
     ELSE IF Len(cardToken) >= 2 /\ cardToken[1] = "ctok" /\ cardToken[2] = "_"
     THEN defaultBsimId
     ELSE IF (\E i \in 1..Len(cardToken) : cardToken[i] = ".")
             /\ payload.ok /\ payload.bsimId # "none"
     THEN payload.bsimId
     ELSE defaultBsimId

\* getBsimClient that hands out a client for the id it was asked for even
\* when none is registered under it.
getBsimClient_NoFallback(bsimId) ==
  IF bsimId = "none" THEN defaultBsimId ELSE bsimId

\* getBsimClient: the gateway a stored or analysed issuer id ("none" for null)
\* leads to; "legacy" is the bare client built from config.bsim.
getBsimClient(bsimId) ==
  LET effectiveBsimId == IF bsimId = "none" THEN defaultBsimId ELSE bsimId
  IN IF effectiveBsimId \in bsimClients THEN effectiveBsimId
     ELSE IF defaultBsimId \in bsimClients THEN defaultBsimId
     ELSE "legacy"

\* The gateway g has been called for transaction t.
Sent(t, g) == [sentTo EXCEPT ![t] = @ \cup {g}]

\* ------------------------------------------------------------- bookkeeping
\* A response: the operation and transaction it answers, the card token of
\* the request (authorize only), what the issuer exchange ended in ("none":
\* the issuer was not called), the status and the amount (capturedAmount or
\* refundedAmount) returned.
\* thrown: the call ended in an exception instead of a result; rejected: the
\* repository writes of the call that were rejected; rewrites: the writes the
\* call made after one of its writes had been rejected.
NoResp == [op |-> "none", tid |-> 0, wire |-> "none", status |-> "none",
           outAmount |-> 0, cardToken |-> <<>>, thrown |-> FALSE,
           rejected |-> 0, rewrites |-> 0]

Response(op, t, wire, status, outAmount) ==
  [op |-> op, tid |-> t, wire |-> wire, status |-> status, outAmount |-> outAmount,
   cardToken |-> <<>>, thrown |-> FALSE, rejected |-> 0, rewrites |-> 0]

Bump(f, t, k) == [f EXCEPT ![t][k] = @ + 1]

sendWebhookNotification(event, t) == Bump(raised, t, event)

\* HMAC-SHA256 in hex: a value that names its key and its message and
\* nothing else (no two keys or messages give the same value).
hmac(key, msg) == [alg |-> "hmac-sha256", key |-> key, msg |-> msg]

\* A signature made with one key for every endpoint.
generateSignature_SharedKey(payload, secret) == hmac("S1", payload)

\* crypto.createHmac('sha256', secret).update(payload).digest('hex')
generateSignature(payload, secret) == hmac(secret, payload)

\* The X-Webhook-Signature header: `sha256=${signature}`.
signatureHeader(signature) == [scheme |-> "sha256=", hex |-> signature]

NoDelivery == [sent |-> FALSE, webhookId |-> 0, body |-> <<>>,
               signature |-> signatureHeader(generateSignature(<<>>, "none"))]

\* The payment state after construction, whatever the configuration.
\* The process before index.ts has started anything: no timer, no worker, no
\* queue object, no connection, nothing waiting in the expiry queue.
NoSystem == [pc |-> "off", accepting |-> FALSE, timers |-> 0,
             schedulerInterval |-> FALSE, expiryWorker |-> FALSE,
             expiryQueue |-> "none", webhookWorker |-> FALSE,
             webhookQueue |-> "none", redis |-> "none", waiting |-> 0,
             scanning |-> 0, starts |-> 0, added |-> 0, overlaps |-> 0,
             stops |-> 0]

InitPayments ==
  /\ txs = [t \in TxIds |-> NoTx]
  /\ now = 0
  /\ inflight = EmptyBag
  /\ resp = NoResp
  /\ mon = [pc |-> "idle", list |-> <<>>, snap |-> NoTx]
  /\ issuerCalls = [t \in TxIds |-> [k \in IssuerOps |-> 0]]
  /\ raised = [t \in TxIds |-> [e \in EventTypes |-> 0]]
  /\ acceptedRefunds = [t \in TxIds |-> 0]
  /\ nOps = 0
  /\ sentTo = [t \in TxIds |-> {}]
  /\ gw = NoRequest
  /\ webhooks = {}
  /\ jobs = {}
  /\ uuids = 0
  /\ delivery = NoDelivery
  /\ notified = [t \in TxIds |-> [e \in EventTypes |-> 0]]
  /\ sys = NoSystem

\* The default configuration registers the default issuer only.
Init == InitPayments /\ bsimClients = {defaultBsimId}

\* Another call can be taken to the issuer.
CanBegin == BagCardinality(inflight) < NumCalls /\ nOps < MaxOps

\* The clock is read only in expiresAt <= now: it advances while an
\* authorization is waiting to fall due.
Tick ==
  /\ now < MaxTime
  /\ \E t \in TxIds : txs[t].status = "authorized" /\ txs[t].expiresAt > now
  /\ now' = now + 1
  /\ UNCHANGED <<txs, inflight, resp, mon, issuerCalls, raised, acceptedRefunds, nOps, sentTo, aside>>

\* ---------------------------------------------------------------- authorize
\* The in-memory transaction starts as pending; it is stored once, after the
\* issuer has answered.
\* authorize that does not keep the issuer's authorization code.
authorizeStatus_DropsCode(r) ==
  IF r.threw THEN [status |-> "failed", authorizationCode |-> "none",
                   declineReason |-> "Network error"]
  ELSE IF r.approved
       THEN [status |-> "authorized", authorizationCode |-> "none",
             declineReason |-> "none"]
       ELSE [status |-> "declined", authorizationCode |-> "none",
             declineReason |-> r.declineReason]

authorizeStatus(r) ==
  IF r.threw THEN [status |-> "failed", authorizationCode |-> "none",
                   declineReason |-> "Network error"]
  ELSE IF r.approved
       THEN [status |-> "authorized", authorizationCode |-> r.authorizationCode,
             declineReason |-> "none"]
       ELSE [status |-> "declined", authorizationCode |-> "none",
             declineReason |-> r.declineReason]

\* authorize that announces every outcome as payment.authorized.
authorizeEvent_AlwaysAuthorized(status) == "payment.authorized"

\* The event type authorize raises for the status it persisted.
authorizeEvent(status) ==
  IF status = "authorized" THEN "payment.authorized"
  ELSE IF status = "declined" THEN "payment.declined"
  ELSE "payment.failed"

\* randomUUID(): an id no stored transaction has.
FreshId(t) == txs[t].status = "none" /\ \A u \in TxIds : u < t => txs[u].status # "none"

authorize(t, amount, cardToken, o) ==
  /\ nOps < MaxOps
  /\ FreshId(t)
  /\ LET tokenAnalysis == analyzeCardToken(cardToken)
         bsimId == IF tokenAnalysis.bsimId = "none" THEN defaultBsimId
                   ELSE tokenAnalysis.bsimId
         r == BsimAuthorize(o)
         s == authorizeStatus(r)
         transaction == [status |-> s.status, amount |-> amount,
                         capturedAmount |-> 0, refundedAmount |-> 0,
                         authorizationCode |-> s.authorizationCode,
                         declineReason |-> s.declineReason,
                         expiresAt |-> now + authorizationExpiryHours,
                         bsimId |-> bsimId]
     IN /\ txs' = create(t, transaction)
        /\ issuerCalls' = Bump(issuerCalls, t, "authorize")
        /\ sentTo' = Sent(t, getBsimClient(bsimId))
        /\ raised' = sendWebhookNotification(authorizeEvent(transaction.status), t)
        /\ resp' = [Response("authorize", t, o, transaction.status, 0)
                      EXCEPT !.cardToken = cardToken]
  /\ nOps' = nOps + 1
  /\ UNCHANGED <<now, inflight, mon, acceptedRefunds, aside>>

\* ------------------------------------------------- capture / void / refund
\* The refund guard written like the capture and void guards.
requiredStatus_SameForAll(op) == "authorized"

\* The status an operation requires of the transaction it read.
requiredStatus(op) == IF op = "refund" THEN "captured" ELSE "authorized"

\* The amount of an operation that ignores the amount the request names.
operationAmount_IgnoresRequest(op, reqAmount, transaction) ==
  IF op = "capture" THEN transaction.amount
  ELSE IF op = "refund" THEN transaction.capturedAmount - transaction.refundedAmount
  ELSE 0

\* request.amount ?? transaction.amount, and
\* request.amount ?? (capturedAmount - refundedAmount)
operationAmount(op, reqAmount, transaction) ==
  IF reqAmount # NoAmount THEN reqAmount
  ELSE IF op = "capture" THEN transaction.amount
  ELSE IF op = "refund" THEN transaction.capturedAmount - transaction.refundedAmount
  ELSE 0

\* The amount field of the response of a call that did not go to the issuer.
echoAmount(op, transaction) ==
  IF op = "capture" THEN transaction.capturedAmount
  ELSE IF op = "refund" THEN transaction.refundedAmount
  ELSE 0

\* An inbound call suspended at its issuer call: its operation, transaction
\* id, amount and the transaction it read.
Call(op, t, amount, transaction) ==
  [op |-> op, tid |-> t, amount |-> amount, snap |-> transaction]

\* findById, the not-found return, the status guard and the locals computed
\* before the issuer is awaited.  requests is the set the request's amount is
\* drawn from.
Begin(op, t, requests) ==
  LET transaction == findById(t)
  IN IF transaction.status = "none"
     THEN /\ resp' = Response(op, t, "none", "failed", 0)
          /\ UNCHANGED <<inflight, nOps>>
     ELSE IF transaction.status # requiredStatus(op)
     THEN /\ resp' = Response(op, t, "none", transaction.status,
                              echoAmount(op, transaction))
          /\ UNCHANGED <<inflight, nOps>>
     ELSE /\ CanBegin
          /\ \E reqAmount \in requests :
               inflight' = inflight (+) SetToBag({Call(op, t,
                             operationAmount(op, reqAmount, transaction), transaction)})
          /\ nOps' = nOps + 1
          /\ UNCHANGED resp

captureBegin(t) ==
  /\ Begin("capture", t, RequestAmounts)
  /\ UNCHANGED <<txs, now, mon, issuerCalls, raised, acceptedRefunds, sentTo, aside>>

voidBegin(t) ==
  /\ Begin("void", t, {NoAmount})
  /\ UNCHANGED <<txs, now, mon, issuerCalls, raised, acceptedRefunds, sentTo, aside>>

refundBegin(t) ==
  /\ Begin("refund", t, RequestAmounts)
  /\ UNCHANGED <<txs, now, mon, issuerCalls, raised, acceptedRefunds, sentTo, aside>>

\* capture that does not look at the issuer's success flag.
captureData_IgnoresSuccess(r, captureAmount) ==
  IF r.threw THEN [status |-> "failed", declineReason |-> "Network error"]
  ELSE [status |-> "captured", capturedAmount |-> captureAmount]

\* The fields capture writes for an issuer response.
captureData(r, captureAmount) ==
  IF r.threw THEN [status |-> "failed", declineReason |-> "Network error"]
  ELSE IF r.success THEN [status |-> "captured", capturedAmount |-> captureAmount]
  ELSE [status |-> "failed", declineReason |-> r.error]

\* void that records an issuer refusal as declined.
voidData_Declines(r) ==
  IF r.threw THEN [status |-> "failed", declineReason |-> "Network error"]
  ELSE IF r.success THEN [status |-> "voided"]
  ELSE [status |-> "declined", declineReason |-> r.error]

voidData(r) ==
  IF r.threw THEN [status |-> "failed", declineReason |-> "Network error"]
  ELSE IF r.success THEN [status |-> "voided"]
  ELSE [status |-> "failed", declineReason |-> r.error]

\* refund that compares with > instead of >=.
refundData_StrictCompare(transaction, refundAmount) ==
  LET newRefundedAmount == transaction.refundedAmount + refundAmount
  IN [status |-> IF newRefundedAmount > transaction.capturedAmount
                 THEN "refunded" ELSE transaction.status,
      refundedAmount |-> newRefundedAmount]

\* newRefundedAmount and newStatus of a refund the issuer accepted.
refundData(transaction, refundAmount) ==
  LET newRefundedAmount == transaction.refundedAmount + refundAmount
  IN [status |-> IF newRefundedAmount >= transaction.capturedAmount
                 THEN "refunded" ELSE transaction.status,
      refundedAmount |-> newRefundedAmount]

\* refund that takes every answer that is not an exception as success.
refundAccepted_AnyAnswer(r) == ~r.threw

\* The refund branch that mutates: no exception and success:true.
refundAccepted(r) == ~r.threw /\ r.success

\* The call leaves the handler.
Leave(call) == inflight (-) SetToBag({call})

\* capture that reports the status it asked the issuer for.
captureFinish_ReportsCaptured(call, o) ==
  /\ BagIn(call, inflight) /\ call.op = "capture"
  /\ LET t == call.tid
         r == BsimMutate(o)
         updated == update(t, captureData(r, call.amount))
     IN /\ issuerCalls' = Bump(issuerCalls, t, "capture")
        /\ sentTo' = Sent(t, getBsimClient(call.snap.bsimId))
        /\ txs' = updated
        /\ raised' = IF updated[t].status = "captured"
                     THEN sendWebhookNotification("payment.captured", t)
                     ELSE raised
        /\ resp' = Response("capture", t, o, "captured", call.amount)
  /\ inflight' = Leave(call)
  /\ UNCHANGED <<now, mon, acceptedRefunds, nOps, aside>>

captureFinish(call, o) ==
  /\ BagIn(call, inflight) /\ call.op = "capture"
  /\ LET t == call.tid
         r == BsimMutate(o)
         updated == update(t, captureData(r, call.amount))
     IN /\ issuerCalls' = Bump(issuerCalls, t, "capture")
        /\ sentTo' = Sent(t, getBsimClient(call.snap.bsimId))
        /\ txs' = updated
        /\ raised' = IF updated[t].status = "captured"
                     THEN sendWebhookNotification("payment.captured", t)
                     ELSE raised
        /\ resp' = Response("capture", t, o, updated[t].status,
                            updated[t].capturedAmount)
  /\ inflight' = Leave(call)
  /\ UNCHANGED <<now, mon, acceptedRefunds, nOps, aside>>

voidFinish(call, o) ==
  /\ BagIn(call, inflight) /\ call.op = "void"
  /\ LET t == call.tid
         r == BsimMutate(o)
         updated == update(t, voidData(r))
     IN /\ issuerCalls' = Bump(issuerCalls, t, "void")
        /\ sentTo' = Sent(t, getBsimClient(call.snap.bsimId))
        /\ txs' = updated
        /\ raised' = IF updated[t].status = "voided"
                     THEN sendWebhookNotification("payment.voided", t)
                     ELSE raised
        /\ resp' = Response("void", t, o, updated[t].status, 0)
  /\ inflight' = Leave(call)
  /\ UNCHANGED <<now, mon, acceptedRefunds, nOps, aside>>

refundFinish(call, o) ==
  /\ BagIn(call, inflight) /\ call.op = "refund"
  /\ LET t == call.tid
         r == BsimMutate(o)
         accepted == refundAccepted(r)
         updated == update(t, refundData(call.snap, call.amount))
     IN /\ issuerCalls' = Bump(issuerCalls, t, "refund")
        /\ sentTo' = Sent(t, getBsimClient(call.snap.bsimId))
        /\ IF accepted
           THEN /\ txs' = updated
                /\ raised' = sendWebhookNotification("payment.refunded", t)
                /\ acceptedRefunds' = [acceptedRefunds EXCEPT ![t] = @ + call.amount]
                /\ resp' = Response("refund", t, o, updated[t].status,
                                    updated[t].refundedAmount)
           ELSE /\ resp' = Response("refund", t, o, "failed",
                                    call.snap.refundedAmount)
                /\ UNCHANGED <<txs, raised, acceptedRefunds>>
  /\ inflight' = Leave(call)
  /\ UNCHANGED <<now, mon, nOps, aside>>

\* ------------------------------------------------------------ expiry scan
RECURSIVE Orders(_)
Orders(S) ==
  IF S = {} THEN {<<>>}
  ELSE UNION {{<<x>> \o s : s \in Orders(S \ {x})} : x \in S}

\* processExpiredAuthorizations up to its loop: the list of due transactions.
processExpiredAuthorizations ==
  /\ mon.pc = "idle"
  /\ findExpiredAuthorizations # {}
  /\ \E l \in Orders(findExpiredAuthorizations) :
       mon' = [pc |-> "loop", list |-> l, snap |-> NoTx]
  /\ UNCHANGED <<txs, now, inflight, resp, issuerCalls, raised, acceptedRefunds, nOps, sentTo, aside>>

\* The loop moves to the next transaction, or the scan ends.
Advance == IF Len(mon.list) > 1
           THEN [pc |-> "loop", list |-> Tail(mon.list), snap |-> NoTx]
           ELSE [pc |-> "idle", list |-> <<>>, snap |-> NoTx]

expireAuthorizationBegin ==
  /\ mon.pc = "loop"
  /\ LET transaction == findById(Head(mon.list))
     IN IF transaction.status = "none" \/ transaction.status # "authorized"
        THEN mon' = Advance
        ELSE mon' = [mon EXCEPT !.pc = "void", !.snap = transaction]
  /\ UNCHANGED <<txs, now, inflight, resp, issuerCalls, raised, acceptedRefunds, nOps, sentTo, aside>>

\* What the void inside expireAuthorization's try block can do: return a
\* result, or throw into the catch block.
VoidAttempts == MutationOutcomes \cup {"throws"}

\* expireAuthorization that returns without expiring when the void failed.
expireAuthorizationFinish_PropagatesFailure(o) ==
  /\ mon.pc = "void"
  /\ LET t == Head(mon.list)
     IN /\ issuerCalls' = IF mon.snap.authorizationCode # "none"
                          THEN Bump(issuerCalls, t, "void") ELSE issuerCalls
        /\ sentTo' = IF mon.snap.authorizationCode # "none"
                     THEN Sent(t, getBsimClient(mon.snap.bsimId)) ELSE sentTo
        /\ IF o = "success"
           THEN /\ txs' = update(t, [status |-> "expired"])
                /\ raised' = sendWebhookNotification("payment.expired", t)
           ELSE UNCHANGED <<txs, raised>>
  /\ mon' = Advance
  /\ UNCHANGED <<now, inflight, resp, acceptedRefunds, nOps, aside>>

\* The best-effort void (its outcome is ignored), the update and the event.
expireAuthorizationFinish(o) ==
  /\ mon.pc = "void"
  /\ LET t == Head(mon.list)
     IN /\ issuerCalls' = IF mon.snap.authorizationCode # "none"
                          THEN Bump(issuerCalls, t, "void") ELSE issuerCalls
        /\ sentTo' = IF mon.snap.authorizationCode # "none"
                     THEN Sent(t, getBsimClient(mon.snap.bsimId)) ELSE sentTo
        /\ txs' = update(t, [status |-> "expired"])
        /\ raised' = sendWebhookNotification("payment.expired", t)
  /\ mon' = Advance
  /\ UNCHANGED <<now, inflight, resp, acceptedRefunds, nOps, aside>>

Next ==
  \/ Tick
  \/ \E t \in TxIds, a \in Amounts, o \in AuthorizeOutcomes :
       authorize(t, a, ConsentToken, o)
  \/ \E t \in TxIds : captureBegin(t)
  \/ \E t \in TxIds : voidBegin(t)
  \/ \E t \in TxIds : refundBegin(t)
  \/ \E call \in BagToSet(inflight), o \in MutationOutcomes : captureFinish(call, o)
  \/ \E call \in BagToSet(inflight), o \in MutationOutcomes : voidFinish(call, o)
  \/ \E call \in BagToSet(inflight), o \in MutationOutcomes : refundFinish(call, o)
  \/ processExpiredAuthorizations
  \/ expireAuthorizationBegin
  \/ \E o \in VoidAttempts : expireAuthorizationFinish(o)

Spec == Init /\ [][Next]_vars

\* Operations run one at a time: no handler begins while another is suspended
\* between its read and its write.
NoOverlap ==
  BagCardinality(inflight) + (IF mon.pc = "void" THEN 1 ELSE 0) <= 1

NextSeq == Next /\ NoOverlap'

SpecSeq == Init /\ [][NextSeq]_vars

\* A step of the expiry scan, and the return of a suspended inbound call.
ScanStep ==
  \/ processExpiredAuthorizations
  \/ expireAuthorizationBegin
  \/ \E o \in VoidAttempts : expireAuthorizationFinish(o)

CallFinish ==
  \E call \in BagToSet(inflight), o \in MutationOutcomes :
    captureFinish(call, o) \/ voidFinish(call, o) \/ refundFinish(call, o)

\* The expiry check is queued every CHECK_INTERVAL_MS and the worker takes it:
\* a scan that can start starts, and one that has started goes on.  An issuer
\* call ends, with an answer or with an error.
ScanFairness == WF_vars(ScanStep /\ NoOverlap') /\ WF_vars(CallFinish)

SpecScan == SpecSeq /\ ScanFairness

\* Routing: any registry, any card token, operations one at a time.  The
\* gateway is chosen before the issuer answers, so the issuer's answers are
\* kept to the ones that let the transaction go on.
InitRoute == InitPayments /\ bsimClients \in Registries

RouteStep ==
  \/ Tick
  \/ \E t \in TxIds, a \in Amounts, k \in CardTokens : authorize(t, a, k, "approved")
  \/ \E t \in TxIds : captureBegin(t)
  \/ \E t \in TxIds : voidBegin(t)
  \/ \E t \in TxIds : refundBegin(t)
  \/ \E call \in BagToSet(inflight) :
       \/ captureFinish(call, "success")
       \/ voidFinish(call, "success")
       \/ refundFinish(call, "success")
  \/ ScanStep

NextRoute == RouteStep /\ NoOverlap'

SpecRoute == InitRoute /\ [][NextRoute]_vars

\* ------------------------------------------------------- notifications
Merchants == {"m1", "m2"}

\* The registrations explored: a merchant and the events subscribed to.
Registrations == {<<"m1", EventTypes>>, <<"m1", {"payment.captured"}>>,
                  <<"m2", EventTypes>>}

\* The events raised in the notification specifications.
RaisedEvents == {"payment.captured", "payment.voided"}

\* The secrets a registration can bring ("none": it brings none), and
\* generateSecret(): a random secret no other endpoint has.
Secrets == {"S1", "S2"}
GeneratedSecrets == <<"g1", "g2", "g3", "g4">>
generateSecret(n) == GeneratedSecrets[n]

\* WebhookService.registerWebhook: the endpoint is stored active, under an
\* id of its own, with registration.secret || generateSecret().
registerWebhook(merchantId, events, secret) ==
  /\ Cardinality(webhooks) < MaxWebhooks
  /\ LET webhookId == Cardinality(webhooks) + 1
     IN webhooks' = webhooks \cup
          {[id |-> webhookId, merchantId |-> merchantId, events |-> events,
            secret |-> IF secret = "none" THEN generateSecret(webhookId) ELSE secret,
            isActive |-> TRUE]}
  /\ UNCHANGED <<payments, sys, bsimClients, gw, jobs, uuids, delivery, notified>>

\* WebhookService.updateWebhook: the fields present in updates replace the
\* stored ones; nothing happens when no endpoint has the id.
updateWebhook(webhookId, updates) ==
  /\ \E w \in webhooks : w.id = webhookId /\ w.isActive # updates.isActive
  /\ webhooks' = {IF w.id = webhookId
                  THEN [w EXCEPT !.isActive = updates.isActive] ELSE w
                  : w \in webhooks}
  /\ UNCHANGED <<payments, sys, bsimClients, gw, jobs, uuids, delivery, notified>>

\* findByMerchantId without its isActive filter.
getWebhooksForMerchant_AllEndpoints(merchantId) ==
  {w \in webhooks : w.merchantId = merchantId}

\* WebhookRepository.findByMerchantId(merchantId, true)
getWebhooksForMerchant(merchantId) ==
  {w \in webhooks : w.merchantId = merchantId /\ w.isActive}

\* queue.add(name, jobData, {jobId}): a job whose id the queue already holds
\* is not added again.
enqueueWebhook(queue, jobData) ==
  IF \E j \in queue : j.id = jobData.id THEN queue ELSE queue \cup {jobData}

\* The payload ids randomUUID() gives to the endpoints of one notification:
\* the n-th endpoint (by id) gets the n-th id not handed out before.
payloadId(targets, w) == uuids + Cardinality({v \in targets : v.id <= w.id})

RECURSIVE enqueueAll(_, _)
enqueueAll(queue, jobDatas) ==
  IF jobDatas = {} THEN queue
  ELSE LET j == CHOOSE x \in jobDatas : TRUE
       IN enqueueAll(enqueueWebhook(queue, j), jobDatas \ {j})

\* What can go wrong in a notification: nothing, the lookup of the endpoints
\* (the repository rejects) or the enqueueing (the queue rejects).
Faults == {"none", "lookup", "enqueue"}

\* The body of WebhookService.sendWebhookNotification(event, data) for
\* transaction t of merchant merchantId: one payload with a fresh id, and one
\* job keyed by that id, for every active endpoint of the merchant that
\* subscribes.  A failed lookup ends the call; a failed enqueue is logged
\* and the loop goes on.
notification(event, merchantId, t, fault) ==
  LET targets == IF fault = "lookup" THEN {}
                 ELSE {w \in getWebhooksForMerchant(merchantId) : event \in w.events}
      jobDatas == {[id |-> payloadId(targets, w), webhookId |-> w.id,
                    webhookSecret |-> w.secret, type |-> event, tid |-> t,
                    state |-> "waiting", attemptsMade |-> 0, delays |-> <<>>]
                   : w \in targets}
  IN /\ uuids + Cardinality(targets) <= MaxJobs
     /\ jobs' = IF fault = "enqueue" THEN jobs ELSE enqueueAll(jobs, jobDatas)
     /\ uuids' = uuids + Cardinality(targets)

\* sendWebhookNotification called on its own.
notify(event, merchantId, t, fault) ==
  /\ notification(event, merchantId, t, fault)
  /\ UNCHANGED <<payments, sys, bsimClients, gw, webhooks, delivery, notified>>

NextWebhook ==
  \/ \E r \in Registrations : registerWebhook(r[1], r[2], "none")
  \/ \E id \in 1..MaxWebhooks : updateWebhook(id, [isActive |-> FALSE])
  \/ \E e \in RaisedEvents, m \in Merchants, t \in TxIds, f \in Faults :
       notify(e, m, t, f)

\* Endpoints registered and events raised.
SpecWebhook == Init /\ [][NextWebhook]_vars

\* ------------------------------------------- notifications of payments
\* request.merchantId of the transactions of this specification.
TxMerchant == "m1"

\* The triggering operation made to wait for its notification and to fail
\* with it.
operationResult_AwaitsNotification(fault) ==
  IF fault = "none" THEN resp ELSE [resp EXCEPT !.status = "error"]

\* sendWebhookNotification(...).catch(log), not awaited: the operation has
\* returned its result whatever becomes of the notification.
operationResult(fault) == resp

\* A notification raised by a payment operation runs to its end.
settleNotification(t, event, fault) ==
  /\ notified[t][event] < raised[t][event]
  /\ notification(event, TxMerchant, t, fault)
  /\ notified' = Bump(notified, t, event)
  /\ resp' = operationResult(fault)
  /\ UNCHANGED <<txs, now, inflight, mon, issuerCalls, raised, acceptedRefunds,
                 nOps, sentTo, sys, bsimClients, gw, webhooks, delivery>>

\* Every notification raised so far has run to its end.
Settled == notified = raised

\* The life of one transaction: the operations on it and the expiry scan.
PaymentStep ==
  \/ Tick
  \/ \E a \in Amounts, o \in AuthorizeOutcomes : authorize(1, a, ConsentToken, o)
  \/ \E t \in TxIds : captureBegin(t)
  \/ \E t \in TxIds : voidBegin(t)
  \/ \E t \in TxIds : refundBegin(t)
  \/ \E call \in BagToSet(inflight), o \in MutationOutcomes :
       \/ captureFinish(call, o)
       \/ voidFinish(call, o)
       \/ refundFinish(call, o)
  \/ ScanStep

NotifyStep ==
  \/ Settled /\ PaymentStep
  \/ Settled /\ registerWebhook(TxMerchant, EventTypes, "none")
  \/ \E t \in TxIds, e \in EventTypes, f \in Faults : settleNotification(t, e, f)

NextNotify == NotifyStep /\ NoOverlap'

\* The operations on one transaction, one at a time, each followed by the
\* notification it raised.
SpecNotify == Init /\ [][NextNotify]_vars

\* -------------------------------------------------------------- delivery
\* JSON.stringify(payload): the text of the payload's id, type and data.
stringify(job) == <<"id", job.id, "type", job.type, "data", job.tid>>

\* What one delivery attempt ends in.
DeliveryOutcomes == {"2xx", "non2xx", "timeout", "neterr"}

\* The queue's exponential backoff after attemptsMade failed attempts.
backoff(attemptsMade) == webhookRetryDelayMs * 2 ^ (attemptsMade - 1)

\* A queue configured with attempts: maxRetries + 1.
attempts_OneMore == webhookMaxRetries + 1

\* defaultJobOptions.attempts: the total number of attempts of a job.
attempts == webhookMaxRetries

\* The worker takes a job that is waiting or whose delay has passed, sends
\* it (deliverWebhook) and the queue settles the job: completed on a 2xx,
\* delayed for another attempt, or failed when the attempts are used up.
deliverWebhook(job, outcome) ==
  /\ job \in jobs
  /\ job.state \in {"waiting", "delayed"}
  /\ LET payloadString == stringify(job)
         signature == generateSignature(payloadString, job.webhookSecret)
         made == job.attemptsMade + 1
         settled ==
           IF outcome = "2xx"
           THEN [job EXCEPT !.state = "completed", !.attemptsMade = made]
           ELSE IF made < attempts
           THEN [job EXCEPT !.state = "delayed", !.attemptsMade = made,
                            !.delays = Append(@, backoff(made))]
           ELSE [job EXCEPT !.state = "failed", !.attemptsMade = made]
     IN /\ delivery' = [sent |-> TRUE, webhookId |-> job.webhookId,
                        body |-> payloadString,
                        signature |-> signatureHeader(signature)]
        /\ jobs' = (jobs \ {job}) \cup {settled}
  /\ UNCHANGED <<payments, sys, bsimClients, gw, webhooks, uuids, notified>>

\* The oldest job that is not settled.
Oldest(job) ==
  \A j \in jobs : j.state \in {"waiting", "delayed"} => job.id <= j.id

NextDelivery ==
  \/ \E c \in Secrets : registerWebhook("m1", EventTypes, c)
  \/ \E t \in TxIds : notify("payment.captured", "m1", t, "none")
  \/ \E job \in jobs, outcome \in DeliveryOutcomes :
       Oldest(job) /\ deliverWebhook(job, outcome)

\* Events raised for subscribed endpoints and delivered, oldest job first.
SpecDelivery == Init /\ [][NextDelivery]_vars

\* A gateway call on its own.
SpecGateway == Init /\ [][NextGateway]_vars

\* ---------------------------------------------------- process and scheduler
\* index.ts starts the two workers and the expiry scheduler, listens, and on
\* SIGTERM or SIGINT shuts down; expiry-scheduler.ts keeps the timer, the
\* expiry queue and its worker; webhook-queue.ts keeps the webhook queue and
\* its worker.  A queue object is "none" before it is created, "open" while
\* it lives and "closed" once close() has run on it.
MaxStarts == 2
MaxAdds == 3
expiryConcurrency == 1

getRedisConnection(s) ==
  IF s.redis = "open" THEN s ELSE [s EXCEPT !.redis = "open"]

getExpiryQueue(s) ==
  IF s.expiryQueue = "open" THEN s
  ELSE [getRedisConnection(s) EXCEPT !.expiryQueue = "open"]

getWebhookQueue(s) ==
  IF s.webhookQueue = "open" THEN s
  ELSE [getRedisConnection(s) EXCEPT !.webhookQueue = "open"]

startWebhookWorker(s) ==
  IF s.webhookWorker THEN s
  ELSE [getRedisConnection(s) EXCEPT !.webhookWorker = TRUE]

startExpiryWorker(s) ==
  IF s.expiryWorker THEN s
  ELSE [getRedisConnection(s) EXCEPT !.expiryWorker = TRUE]

\* queue.add('expiry-check', ...): one more scan job waits in the queue.
addExpiryCheck(s) ==
  [s EXCEPT !.waiting = @ + 1, !.added = @ + 1]

\* The scheduler without its "already running" guard.
startExpiryScheduler_Unguarded(s) ==
  [addExpiryCheck(getExpiryQueue(s)) EXCEPT
     !.schedulerInterval = TRUE, !.timers = @ + 1, !.starts = @ + 1]

startExpiryScheduler(s) ==
  IF s.schedulerInterval THEN [s EXCEPT !.starts = @ + 1]
  ELSE [addExpiryCheck(getExpiryQueue(s)) EXCEPT
          !.schedulerInterval = TRUE, !.timers = @ + 1, !.starts = @ + 1]

Running == sys.pc \notin {"off", "exited"}

\* index.ts, lines 11 to 20: the three starts and app.listen.
main ==
  /\ sys.pc = "off"
  /\ sys' = [startExpiryScheduler(startExpiryWorker(startWebhookWorker(sys)))
               EXCEPT !.pc = "up", !.accepting = TRUE]
  /\ UNCHANGED <<payments, bsimClients, gw, hooks>>

\* A further call of the exported function while the process runs.
startAgain ==
  /\ sys.pc = "up"
  /\ sys.starts < MaxStarts
  /\ sys.added < MaxAdds
  /\ sys' = startExpiryScheduler(sys)
  /\ UNCHANGED <<payments, bsimClients, gw, hooks>>

\* The setInterval callback: every live timer adds one scan job, whatever
\* the worker is doing.
timerTick ==
  /\ Running
  /\ sys.timers > 0
  /\ sys.added + sys.timers <= MaxAdds
  /\ sys' = [sys EXCEPT !.waiting = @ + sys.timers, !.added = @ + sys.timers,
                        !.overlaps = IF sys.scanning > 0 THEN @ + 1 ELSE @]
  /\ UNCHANGED <<payments, bsimClients, gw, hooks>>

\* A worker that takes a waiting job whether or not it has a free slot.
scanStart_NoSlotLimit ==
  /\ Running
  /\ sys.expiryWorker
  /\ sys.pc # "stop: expiryWorker.close"
  /\ sys.waiting > 0
  /\ sys' = [sys EXCEPT !.waiting = @ - 1, !.scanning = @ + 1]
  /\ UNCHANGED <<payments, bsimClients, gw, hooks>>

\* The expiry worker takes a waiting job while it has a free slot.
scanStart ==
  /\ Running
  /\ sys.expiryWorker
  \* a worker whose close() has been called takes no further job
  /\ sys.pc # "stop: expiryWorker.close"
  /\ sys.waiting > 0
  /\ sys.scanning < expiryConcurrency
  /\ sys' = [sys EXCEPT !.waiting = @ - 1, !.scanning = @ + 1]
  /\ UNCHANGED <<payments, bsimClients, gw, hooks>>

scanEnd ==
  /\ Running
  /\ sys.scanning > 0
  /\ sys' = [sys EXCEPT !.scanning = @ - 1]
  /\ UNCHANGED <<payments, bsimClients, gw, hooks>>

\* enqueueWebhook on behalf of a handler or of a running scan: it asks
\* getWebhookQueue() for the queue, which creates one when there is none.
enqueueStep ==
  /\ Running
  /\ sys.accepting \/ sys.scanning > 0
  /\ sys.webhookQueue # "open"
  /\ sys' = getWebhookQueue(sys)
  /\ UNCHANGED <<payments, bsimClients, gw, hooks>>

\* shutdown(signal): server.close(callback).
shutdown ==
  /\ sys.pc = "up"
  /\ sys' = [sys EXCEPT !.pc = "closing", !.accepting = FALSE]
  /\ UNCHANGED <<payments, bsimClients, gw, hooks>>

\* The callback of server.close and the awaits inside it, in program order:
\* stopWebhookWorker (worker, queue), stopExpiryScheduler (timer, worker,
\* queue), closeRedisConnection, process.exit.
ShutdownOrder ==
  <<"closing", "webhookWorker.close", "webhookQueue.close", "clearInterval",
    "expiryWorker.close", "expiryQueue.close", "redis.quit", "exited">>

stepAfter(pc) ==
  ShutdownOrder[1 + CHOOSE i \in 1..(Len(ShutdownOrder) - 1) : ShutdownOrder[i] = pc]

stopWebhookWorker_Worker(s) ==
  IF s.webhookWorker THEN [s EXCEPT !.webhookWorker = FALSE] ELSE s

stopWebhookWorker_Queue(s) ==
  IF s.webhookQueue = "open" THEN [s EXCEPT !.webhookQueue = "closed"] ELSE s

\* stopExpiryScheduler that forgets its timer without clearing it.
stopExpiryScheduler_Timer_NoClear(s) ==
  IF s.schedulerInterval THEN [s EXCEPT !.schedulerInterval = FALSE] ELSE s

stopExpiryScheduler_Timer(s) ==
  IF s.schedulerInterval
  THEN [s EXCEPT !.schedulerInterval = FALSE, !.timers = 0] ELSE s

stopExpiryScheduler_Worker(s) ==
  IF s.expiryWorker THEN [s EXCEPT !.expiryWorker = FALSE] ELSE s

stopExpiryScheduler_Queue(s) ==
  IF s.expiryQueue = "open" THEN [s EXCEPT !.expiryQueue = "closed"] ELSE s

closeRedisConnection(s) ==
  IF s.redis = "open" THEN [s EXCEPT !.redis = "closed"] ELSE s

shutdownStep ==
  /\ sys.pc \in {ShutdownOrder[i] : i \in 1..(Len(ShutdownOrder) - 1)}
  \* worker.close() resolves once the job the worker is running has ended
  /\ stepAfter(sys.pc) = "expiryWorker.close" => sys.scanning = 0
  /\ LET next == stepAfter(sys.pc)
         done == CASE next = "webhookWorker.close" -> stopWebhookWorker_Worker(sys)
                   [] next = "webhookQueue.close" -> stopWebhookWorker_Queue(sys)
                   [] next = "clearInterval" -> stopExpiryScheduler_Timer(sys)
                   [] next = "expiryWorker.close" -> stopExpiryScheduler_Worker(sys)
                   [] next = "expiryQueue.close" -> stopExpiryScheduler_Queue(sys)
                   [] next = "redis.quit" -> closeRedisConnection(sys)
                   [] OTHER -> sys
     IN sys' = [done EXCEPT !.pc = next]
  /\ UNCHANGED <<payments, bsimClients, gw, hooks>>

\* stopExpiryScheduler called on its own, while the process stays up: the
\* timer is cleared and worker.close() is called in one synchronous run; the
\* function then waits for the worker, closes the queue and returns.
stopExpiryScheduler ==
  /\ sys.pc = "up"
  /\ sys.stops < MaxStarts
  /\ sys' = [stopExpiryScheduler_Timer(sys) EXCEPT !.pc = "stop: expiryWorker.close"]
  /\ UNCHANGED <<payments, bsimClients, gw, hooks>>

stopExpiryScheduler_WorkerClosed ==
  /\ sys.pc = "stop: expiryWorker.close"
  /\ sys.scanning = 0
  /\ sys' = [stopExpiryScheduler_Worker(sys) EXCEPT !.pc = "stop: expiryQueue.close"]
  /\ UNCHANGED <<payments, bsimClients, gw, hooks>>

stopExpiryScheduler_QueueClosed ==
  /\ sys.pc = "stop: expiryQueue.close"
  /\ sys' = [stopExpiryScheduler_Queue(sys) EXCEPT !.pc = "up", !.stops = @ + 1]
  /\ UNCHANGED <<payments, bsimClients, gw, hooks>>

NextProcess ==
  \/ main
  \/ startAgain
  \/ timerTick
  \/ scanStart
  \/ scanEnd
  \/ enqueueStep
  \/ shutdown
  \/ shutdownStep
  \/ stopExpiryScheduler
  \/ stopExpiryScheduler_WorkerClosed
  \/ stopExpiryScheduler_QueueClosed

SpecProcess == Init /\ [][NextProcess]_vars

\* ------------------------------------------------------ issuer answers
\* The handlers, one call at a time, against an issuer that may approve
\* without sending an authorization code.
IssuerStep ==
  \/ Tick
  \/ \E t \in TxIds, a \in Amounts, o \in IssuerAnswers :
       authorize(t, a, ConsentToken, o)
  \/ \E t \in TxIds : captureBegin(t)
  \/ \E t \in TxIds : voidBegin(t)
  \/ \E t \in TxIds : refundBegin(t)
  \/ \E call \in BagToSet(inflight), o \in MutationOutcomes : captureFinish(call, o)
  \/ \E call \in BagToSet(inflight), o \in MutationOutcomes : voidFinish(call, o)
  \/ \E call \in BagToSet(inflight), o \in MutationOutcomes : refundFinish(call, o)
  \/ ScanStep

NextIssuer == IssuerStep /\ NoOverlap'

SpecIssuer == Init /\ [][NextIssuer]_vars

\* ------------------------------------------------- repository write faults
\* The handlers again, with a repository whose create and update can reject.
\* w[1] is the outcome of the first write a call attempts and w[2] that of
\* the write it attempts after the first was rejected, if it attempts one.
WriteOutcomes == {"ok", "reject"}
Writes == [1..2 -> WriteOutcomes]

\* A call that ended in an exception: no result, no status.
Thrown(op, t, wire, rejected, rewrites) ==
  [Response(op, t, wire, "none", 0) EXCEPT
     !.thrown = TRUE, !.rejected = rejected, !.rewrites = rewrites]

\* capture and void whose catch block lets the exception through.
tryUpdate_Rethrows(t, data, r, w) ==
  IF w[1] = "ok"
  THEN [txs |-> update(t, data), thrown |-> FALSE, rejected |-> 0, rewrites |-> 0]
  ELSE [txs |-> txs, thrown |-> TRUE, rejected |-> 1, rewrites |-> 0]

\* The try/catch of capture and void around the issuer call AND the update:
\* an update rejected inside the try block lands in the catch block, which
\* writes status failed with 'Network error'; only a rejection of the write
\* made in the catch block leaves the handler as an exception.
tryUpdate(t, data, r, w) ==
  IF w[1] = "ok"
  THEN [txs |-> update(t, data), thrown |-> FALSE, rejected |-> 0, rewrites |-> 0]
  ELSE IF r.threw
  THEN [txs |-> txs, thrown |-> TRUE, rejected |-> 1, rewrites |-> 0]
  ELSE IF w[2] = "ok"
  THEN [txs |-> update(t, [status |-> "failed", declineReason |-> "Network error"]),
        thrown |-> FALSE, rejected |-> 1, rewrites |-> 1]
  ELSE [txs |-> txs, thrown |-> TRUE, rejected |-> 2, rewrites |-> 1]

authorizeWrite(t, amount, cardToken, o, w) ==
  /\ nOps < MaxOps
  /\ FreshId(t)
  /\ LET tokenAnalysis == analyzeCardToken(cardToken)
         bsimId == IF tokenAnalysis.bsimId = "none" THEN defaultBsimId
                   ELSE tokenAnalysis.bsimId
         r == BsimAuthorize(o)
         s == authorizeStatus(r)
         transaction == [status |-> s.status, amount |-> amount,
                         capturedAmount |-> 0, refundedAmount |-> 0,
                         authorizationCode |-> s.authorizationCode,
                         declineReason |-> s.declineReason,
                         expiresAt |-> now + authorizationExpiryHours,
                         bsimId |-> bsimId]
     IN /\ issuerCalls' = Bump(issuerCalls, t, "authorize")
        /\ sentTo' = Sent(t, getBsimClient(bsimId))
        /\ IF w[1] = "ok"
           THEN /\ txs' = create(t, transaction)
                /\ raised' = sendWebhookNotification(authorizeEvent(transaction.status), t)
                /\ resp' = [Response("authorize", t, o, transaction.status, 0)
                              EXCEPT !.cardToken = cardToken]
           ELSE /\ resp' = Thrown("authorize", t, o, 1, 0)
                /\ UNCHANGED <<txs, raised>>
  /\ nOps' = nOps + 1
  /\ UNCHANGED <<now, inflight, mon, acceptedRefunds, aside>>

captureWrite(call, o, w) ==
  /\ BagIn(call, inflight) /\ call.op = "capture"
  /\ LET t == call.tid
         r == BsimMutate(o)
         done == tryUpdate(t, captureData(r, call.amount), r, w)
         updated == done.txs
     IN /\ issuerCalls' = Bump(issuerCalls, t, "capture")
        /\ sentTo' = Sent(t, getBsimClient(call.snap.bsimId))
        /\ txs' = updated
        /\ raised' = IF ~done.thrown /\ updated[t].status = "captured"
                     THEN sendWebhookNotification("payment.captured", t)
                     ELSE raised
        /\ resp' = IF done.thrown
                   THEN Thrown("capture", t, o, done.rejected, done.rewrites)
                   ELSE [Response("capture", t, o, updated[t].status,
                                  updated[t].capturedAmount)
                           EXCEPT !.rejected = done.rejected,
                                  !.rewrites = done.rewrites]
  /\ inflight' = Leave(call)
  /\ UNCHANGED <<now, mon, acceptedRefunds, nOps, aside>>

voidWrite(call, o, w) ==
  /\ BagIn(call, inflight) /\ call.op = "void"
  /\ LET t == call.tid
         r == BsimMutate(o)
         done == tryUpdate(t, voidData(r), r, w)
         updated == done.txs
     IN /\ issuerCalls' = Bump(issuerCalls, t, "void")
        /\ sentTo' = Sent(t, getBsimClient(call.snap.bsimId))
        /\ txs' = updated
        /\ raised' = IF ~done.thrown /\ updated[t].status = "voided"
                     THEN sendWebhookNotification("payment.voided", t)
                     ELSE raised
        /\ resp' = IF done.thrown
                   THEN Thrown("void", t, o, done.rejected, done.rewrites)
                   ELSE [Response("void", t, o, updated[t].status, 0)
                           EXCEPT !.rejected = done.rejected,
                                  !.rewrites = done.rewrites]
  /\ inflight' = Leave(call)
  /\ UNCHANGED <<now, mon, acceptedRefunds, nOps, aside>>

\* refund: the one update is inside the try block too, and the catch block
\* returns status failed without writing.
refundWrite(call, o, w) ==
  /\ BagIn(call, inflight) /\ call.op = "refund"
  /\ LET t == call.tid
         r == BsimMutate(o)
         accepted == refundAccepted(r)
         updated == update(t, refundData(call.snap, call.amount))
     IN /\ issuerCalls' = Bump(issuerCalls, t, "refund")
        /\ sentTo' = Sent(t, getBsimClient(call.snap.bsimId))
        /\ acceptedRefunds' = IF accepted
                              THEN [acceptedRefunds EXCEPT ![t] = @ + call.amount]
                              ELSE acceptedRefunds
        /\ IF accepted /\ w[1] = "ok"
           THEN /\ txs' = updated
                /\ raised' = sendWebhookNotification("payment.refunded", t)
                /\ resp' = Response("refund", t, o, updated[t].status,
                                    updated[t].refundedAmount)
           ELSE /\ resp' = [Response("refund", t, o, "failed",
                                     call.snap.refundedAmount)
                              EXCEPT !.rejected = IF accepted THEN 1 ELSE 0]
                /\ UNCHANGED <<txs, raised>>
  /\ inflight' = Leave(call)
  /\ UNCHANGED <<now, mon, nOps, aside>>

\* expireAuthorization: the update is after the try block, so its rejection
\* leaves expireAuthorization as an exception, which the scan's loop logs.
expireAuthorizationWrite(o, w) ==
  /\ mon.pc = "void"
  \* a rejected expiry is tried again by the next scan: it counts as an
  \* operation, which bounds the number of such scans
  /\ w[1] = "reject" => nOps < MaxOps
  /\ nOps' = IF w[1] = "reject" THEN nOps + 1 ELSE nOps
  /\ LET t == Head(mon.list)
     IN /\ issuerCalls' = IF mon.snap.authorizationCode # "none"
                          THEN Bump(issuerCalls, t, "void") ELSE issuerCalls
        /\ sentTo' = IF mon.snap.authorizationCode # "none"
                     THEN Sent(t, getBsimClient(mon.snap.bsimId)) ELSE sentTo
        /\ IF w[1] = "ok"
           THEN /\ txs' = update(t, [status |-> "expired"])
                /\ raised' = sendWebhookNotification("payment.expired", t)
                /\ resp' = Response("expireAuthorization", t, o, "expired", 0)
           ELSE /\ resp' = Thrown("expireAuthorization", t, o, 1, 0)
                /\ UNCHANGED <<txs, raised>>
  /\ mon' = Advance
  /\ UNCHANGED <<now, inflight, acceptedRefunds, aside>>

WriteStep ==
  \/ Tick
  \/ \E t \in TxIds, a \in Amounts, o \in AuthorizeOutcomes, w \in Writes :
       authorizeWrite(t, a, ConsentToken, o, w)
  \/ \E t \in TxIds : captureBegin(t)
  \/ \E t \in TxIds : voidBegin(t)
  \/ \E t \in TxIds : refundBegin(t)
  \/ \E call \in BagToSet(inflight), o \in MutationOutcomes, w \in Writes :
       captureWrite(call, o, w)
  \/ \E call \in BagToSet(inflight), o \in MutationOutcomes, w \in Writes :
       voidWrite(call, o, w)
  \/ \E call \in BagToSet(inflight), o \in MutationOutcomes, w \in Writes :
       refundWrite(call, o, w)
  \/ processExpiredAuthorizations
  \/ expireAuthorizationBegin
  \/ \E o \in VoidAttempts, w \in Writes : expireAuthorizationWrite(o, w)

NextWrite == WriteStep /\ NoOverlap'

SpecWrite == Init /\ [][NextWrite]_vars

\* ------------------------------------------------------------------ claims
Stored(t) == txs[t].status # "none"

\* The inbound call that finishes in this step (at most one), and the
\* finishing step of expireAuthorization.
Finished == {call \in BagToSet(inflight) : inflight' = Leave(call)}
ExpiryFinishes == mon.pc = "void" /\ mon'.pc # "void"

\* The inbound call that enters flight in this step (at most one).
Entered ==
  IF BagCardinality(inflight') > BagCardinality(inflight)
  THEN {call \in BagToSet(inflight') : inflight' = inflight (+) SetToBag({call})}
  ELSE {}

\* An inbound call is answered in this step without having gone to the issuer.
Answered == inflight' = inflight /\ resp' # resp /\ resp'.wire = "none"

\* The status that the step writing transaction t had read.
WriterRead(t) ==
  IF txs[t].status = "none" THEN "pending"
  ELSE IF ExpiryFinishes THEN mon.snap.status
  ELSE LET w == {call \in Finished : call.tid = t}
       IN IF w = {} THEN "none" ELSE (CHOOSE call \in w : TRUE).snap.status

\* C1: every stored transaction has 0 <= capturedAmount <= amount and
\* 0 <= refundedAmount <= capturedAmount.
C1_AmountBounds ==
  \A t \in TxIds : Stored(t) =>
    /\ 0 <= txs[t].capturedAmount /\ txs[t].capturedAmount <= txs[t].amount
    /\ 0 <= txs[t].refundedAmount /\ txs[t].refundedAmount <= txs[t].capturedAmount

ListedTransitions ==
  {<<"pending", "authorized">>, <<"authorized", "captured">>,
   <<"captured", "refunded">>, <<"pending", "declined">>,
   <<"pending", "failed">>, <<"authorized", "voided">>,
   <<"authorized", "expired">>}

WrongStatus(op, t) ==
  /\ op \in {"capture", "void", "refund"}
  /\ Stored(t)
  /\ txs[t].status # (IF op = "refund" THEN "captured" ELSE "authorized")

\* C3: capture or void on a stored transaction that is not authorized, and
\* refund on one that is not captured, does not go to the issuer: it returns
\* the existing status, changes no stored transaction, calls no issuer and
\* raises no notification.
C3_WrongStatusIsNoOp ==
  [][/\ \A call \in Entered : ~WrongStatus(call.op, call.tid)
     /\ Answered /\ WrongStatus(resp'.op, resp'.tid)
        => /\ resp'.status = txs[resp'.tid].status
           /\ txs' = txs /\ issuerCalls' = issuerCalls /\ raised' = raised]_vars

\* A second capture has returned captured without a second issuer call.
C3_Witness ==
  /\ resp.op = "capture" /\ resp.wire = "none" /\ resp.status = "captured"
  /\ issuerCalls[resp.tid]["capture"] = 1

\* C4: when operations do not overlap, refundedAmount is the sum of the refunds
\* the issuer accepted, and a refund within the remaining balance adds its
\* amount, leaves the status captured while refundedAmount < capturedAmount and
\* makes it refunded exactly when refundedAmount = capturedAmount.
C4_PartialRefundsAccumulate ==
  /\ [](\A t \in TxIds : Stored(t) => txs[t].refundedAmount = acceptedRefunds[t])
  /\ [][\A call \in Finished :
          LET t == call.tid
              before == txs[t]
              after == txs'[t]
          IN call.op = "refund" /\ resp'.wire = "success"
             /\ before.refundedAmount + call.amount <= before.capturedAmount
             => /\ after.refundedAmount = before.refundedAmount + call.amount
                /\ after.status = "refunded"
                     <=> after.refundedAmount = after.capturedAmount
                /\ after.status = "captured"
                     <=> after.refundedAmount < after.capturedAmount]_vars

\* Two partial refunds have added up to the captured amount.
C4_Witness ==
  \E t \in TxIds : /\ txs[t].status = "refunded"
                   /\ raised[t]["payment.refunded"] = 2
                   /\ txs[t].capturedAmount = 2
                   /\ txs[t].refundedAmount = 2

\* C5: an update is applied only while the stored status is still the status
\* the updating operation read.
C5_UpdateChecksReadStatus ==
  [][\A t \in TxIds : Stored(t) /\ txs'[t] # txs[t] =>
       WriterRead(t) = txs[t].status]_vars

\* C6: once no refund of a transaction is in flight, its refundedAmount is the
\* sum of all refund amounts the issuer accepted.
C6_NoRefundLost ==
  \A t \in TxIds :
    Stored(t) /\ ~(\E call \in BagToSet(inflight) : call.op = "refund" /\ call.tid = t)
      => txs[t].refundedAmount = acceptedRefunds[t]

\* C7: an authorize whose issuer exchange ended in a server or network
\* failure has stored status failed with reason "Network error" and raised
\* payment.failed.
C7_GatewayFailureStoresFailed ==
  resp.op = "authorize" /\ resp.wire = "neterr"
    => /\ txs[resp.tid].status = "failed"
       /\ txs[resp.tid].declineReason = "Network error"
       /\ raised[resp.tid]["payment.failed"] = 1

\* C8: a capture (void) raises payment.captured (payment.voided) exactly when
\* the issuer call succeeded and the status written is captured (voided); when
\* the issuer call failed the status written is failed and nothing is raised.
C8_NotifiesOnlyOnSuccess ==
  [][\A call \in Finished :
       call.op \in {"capture", "void"} =>
         LET t == call.tid
             ev == IF call.op = "capture" THEN "payment.captured"
                   ELSE "payment.voided"
             st == IF call.op = "capture" THEN "captured" ELSE "voided"
             ok == resp'.wire = "success"
         IN /\ raised'[t][ev] # raised[t][ev]
                 <=> ok /\ txs'[t].status = st
            /\ ok => txs'[t].status = st
                     /\ raised' = [raised EXCEPT ![t][ev] = @ + 1]
            /\ ~ok => txs'[t].status = "failed" /\ raised' = raised]_vars

\* A capture the issuer accepted has raised payment.captured once.
C8_Witness ==
  /\ resp.op = "capture" /\ resp.wire = "success"
  /\ txs[resp.tid].status = "captured"
  /\ raised[resp.tid]["payment.captured"] = 1

\* C9: a refund whose issuer call failed changes no stored transaction,
\* returns status failed and raises nothing.
C9_FailedRefundChangesNothing ==
  [][\A call \in Finished :
       call.op = "refund" /\ resp'.wire # "success"
       => /\ txs' = txs /\ raised' = raised
          /\ acceptedRefunds' = acceptedRefunds
          /\ resp'.status = "failed"]_vars

\* A refund the issuer refused has returned failed; the transaction is still
\* captured.
C9_Witness ==
  /\ resp.op = "refund" /\ resp.wire = "failure" /\ resp.status = "failed"
  /\ txs[resp.tid].status = "captured"

\* C10: the transaction the expiry scan voids, updates and notifies about is,
\* at that moment, stored as authorized with expiresAt <= now.
C10_ExpiryTouchesOnlyDueAuthorized ==
  [][ExpiryFinishes =>
       /\ txs[Head(mon.list)].status = "authorized"
       /\ txs[Head(mon.list)].expiresAt <= now]_vars

\* C11: expireAuthorization that has read an authorized transaction ends, for
\* every outcome of its issuer void, with the stored status expired and one
\* payment.expired raised, and the scan goes on as after any other transaction.
C11_ExpiryIgnoresVoidOutcome ==
  [][ExpiryFinishes =>
       LET t == Head(mon.list)
       IN /\ mon.snap.status = "authorized"
          /\ txs'[t].status = "expired"
          /\ raised' = [raised EXCEPT ![t]["payment.expired"] = @ + 1]
          /\ mon' = Advance]_vars

\* An authorization has been expired by a scan that also called the issuer.
C11_Witness ==
  \E t \in TxIds : /\ txs[t].status = "expired"
                   /\ issuerCalls[t]["void"] = 1
                   /\ raised[t]["payment.expired"] = 1
                   /\ mon.pc = "idle"

\* Transaction t is an authorization past its expiry.
Due(t) == txs[t].status = "authorized" /\ txs[t].expiresAt <= now

\* C12: payment.expired is raised at most once for a transaction and exactly
\* once for an expired one, and an authorization past its expiry is expired
\* by a scan, with that one notification, unless a capture or void has taken it
\* out of authorized.
C12_ExpiredExactlyOnce ==
  \A t \in TxIds :
    /\ [](raised[t]["payment.expired"] <= 1)
    /\ [](txs[t].status = "expired" => raised[t]["payment.expired"] = 1)
    /\ Due(t) ~> \/ txs[t].status = "expired" /\ raised[t]["payment.expired"] = 1
                 \/ txs[t].status \in {"captured", "voided", "failed", "refunded"}

\* A transaction no capture or void was tried on has been expired after its
\* expiry time, with one notification, and the scan is over.
C12_Witness ==
  \E t \in TxIds : /\ txs[t].status = "expired" /\ txs[t].expiresAt <= now
                   /\ issuerCalls[t]["capture"] = 0
                   /\ raised[t]["payment.voided"] = 0
                   /\ raised[t]["payment.expired"] = 1
                   /\ mon.pc = "idle" /\ inflight = EmptyBag

\* C13: the issuer id stored with a transaction never changes, and all issuer
\* calls made for a transaction (its authorize and every later capture, void,
\* refund and expiry void) go to one and the same gateway.
C13_OneGatewayPerTransaction ==
  /\ [][\A t \in TxIds : Stored(t) => txs'[t].bsimId = txs[t].bsimId]_vars
  /\ [](\A t \in TxIds : Cardinality(sentTo[t]) <= 1)

\* A transaction routed to newbank has been authorized, captured and refunded
\* there.
C13_Witness ==
  \E t \in TxIds : /\ txs[t].bsimId = "newbank" /\ sentTo[t] = {"newbank"}
                   /\ issuerCalls[t]["capture"] = 1
                   /\ issuerCalls[t]["refund"] = 1

Is5xx(h) == h.name = "response" /\ h.status \in 500..599
Is4xx(h) == h.name = "response" /\ h.status \in 400..499
IsAnswer(h) == h.name = "response" /\ h.status \in 200..299 /\ h.text \in {"yes", "no"}

\* Every fetch of the gateway call ended in a 5xx response.
Every5xx == \A i \in 1..Len(gw.seen) : Is5xx(gw.seen[i])

\* C14: however the HTTP exchange ends, authorize, capture, void, refund and
\* validateToken return a result and do not throw, and the result is negative
\* (approved:false, success:false, false) unless the last fetch brought the
\* issuer's answer.
C14_GatewayNeverThrows ==
  gw.pc = "done" =>
    /\ ~gw.result.threw
    /\ ~IsAnswer(gw.seen[Len(gw.seen)]) => ~gw.result.ok

\* A capture has returned success:false after its retries were used up.
C14_Witness ==
  /\ gw.pc = "done" /\ gw.op = "capture"
  /\ Len(gw.seen) = maxRetries + 1 /\ Every5xx
  /\ ~gw.result.threw /\ ~gw.result.ok

\* C15: when every response is a 5xx the gateway made maxRetries+1 attempts,
\* waited retryDelayMs * 2^(k-1) before the k-th retry, and failed.
C15_RetriesWithBackoff ==
  gw.pc = "done" /\ Every5xx =>
    /\ Len(gw.seen) = maxRetries + 1
    /\ gw.delays = [k \in 1..maxRetries |-> retryDelayMs * 2 ^ (k - 1)]
    /\ ~gw.result.ok

\* An authorize has given up after maxRetries retries of a 5xx.
C15_Witness ==
  /\ gw.pc = "done" /\ gw.op = "authorize" /\ Every5xx
  /\ Len(gw.delays) = maxRetries /\ ~gw.result.ok

\* C16: a request whose first fetch ends in a 4xx response, or in an
\* exception that is not retryable, fails after that one attempt, without a
\* delay.
C16_NoRetryOn4xx ==
  /\ gw.pc \in {"request", "done"} /\ Len(gw.seen) >= 1
  /\ \/ Is4xx(gw.seen[1])
     \/ gw.seen[1].name # "response" /\ ~isRetryableError(gw.seen[1])
  => /\ gw.pc = "done" /\ Len(gw.seen) = 1 /\ gw.delays = <<>>
     /\ ~gw.result.ok

\* The last answered request was the authorize of transaction t with card
\* token k.
Authorized(t, k) == resp.op = "authorize" /\ resp.tid = t /\ resp.cardToken = k

\* C17: a token matching ^wsim_([a-z0-9]+)_ is given the issuer id of its
\* prefix, and its issuer call goes to the instance registered under that id,
\* also when the token has three dot-delimited segments claiming another id.
C17_PrefixWins ==
  \A t \in TxIds, k \in CardTokens :
    Authorized(t, k) /\ wsimMatch(k) =>
      /\ txs[t].bsimId = k[3]
      /\ k[3] \in bsimClients => sentTo[t] = {k[3]}

\* A wsim_newbank_ token whose claim names bsim went to newbank although bsim
\* is registered too.
C17_Witness ==
  \E t \in TxIds :
    /\ Authorized(t, <<"wsim", "_", "newbank", "_", "abc123", ".",
                       "eyJic2ltSWQiOiJic2ltIn0=", ".", "sig">>)
    /\ bsimClients = {"bsim", "newbank"}
    /\ txs[t].bsimId = "newbank" /\ sentTo[t] = {"newbank"}

\* C18: a token beginning with ctok_ is given the default issuer id and its
\* issuer call goes to no other registered instance, whatever follows the
\* prefix.
C18_ConsentTokenRoutesToDefault ==
  \A t \in TxIds, k \in CardTokens :
    Authorized(t, k) /\ Len(k) >= 2 /\ k[1] = "ctok" /\ k[2] = "_" =>
      /\ txs[t].bsimId = defaultBsimId
      /\ sentTo[t] \subseteq {defaultBsimId, "legacy"}

\* C19: authorize gets exactly one gateway for every token; a token that
\* names no issuer has the default id; an id that is not registered is served
\* by the default instance when there is one; the bare client is used only
\* when the default instance is not registered.
C19_RoutingIsTotal ==
  \A t \in TxIds, k \in CardTokens :
    Authorized(t, k) =>
      /\ Cardinality(sentTo[t]) = 1
      /\ analyzeCardToken(k).bsimId = "none" => txs[t].bsimId = defaultBsimId
      /\ txs[t].bsimId \notin bsimClients /\ defaultBsimId \in bsimClients
           => sentTo[t] = {defaultBsimId}
      /\ "legacy" \in sentTo[t] => defaultBsimId \notin bsimClients

\* A token naming an unregistered issuer was served by the default instance.
C19_Witness ==
  \E t \in TxIds :
    /\ Authorized(t, <<"wsim", "_", "other", "_", "abc123">>)
    /\ bsimClients = {"bsim", "newbank"}
    /\ txs[t].bsimId = "other" /\ sentTo[t] = {"bsim"}

\* C20: the queue never holds two jobs for the same transaction, event type
\* and endpoint.
C20_NoDuplicateJob ==
  \A j1, j2 \in jobs :
    j1.webhookId = j2.webhookId /\ j1.type = j2.type /\ j1.tid = j2.tid
      => j1 = j2

C22_FiveRetries ==
  \A j \in jobs :
    j.state = "failed" =>
      /\ j.attemptsMade = 6
      /\ j.delays = <<1000, 2000, 4000, 8000, 16000>>

\* The jobs this step adds for endpoint w.
Enqueued(w) == {j \in jobs' \ jobs : j.webhookId = w.id}

\* C23: a raised event adds exactly one job, of its type and transaction,
\* for every endpoint that is active, belongs to the merchant and subscribes
\* to the type (none of them when the lookup or the queue fails), and no job
\* for any other endpoint.
C23_OneJobPerSubscribedEndpoint ==
  [][\A e \in RaisedEvents, m \in Merchants, t \in TxIds, f \in Faults :
       uuids' # uuids /\ notify(e, m, t, f) =>
         /\ \A j \in jobs' \ jobs : \E w \in webhooks : j.webhookId = w.id
         /\ \A w \in webhooks :
              IF w.isActive /\ w.merchantId = m /\ e \in w.events /\ f = "none"
              THEN /\ Cardinality(Enqueued(w)) = 1
                   /\ \A j \in Enqueued(w) : j.type = e /\ j.tid = t
              ELSE Enqueued(w) = {}]_vars

\* Endpoint 1 was switched off before endpoint 2 was registered; the event
\* raised since then has a job for endpoint 2 and none for endpoint 1.
C23_Witness ==
  /\ \E w \in webhooks : w.id = 1 /\ ~w.isActive /\ w.merchantId = "m1"
                         /\ w.events = EventTypes
  /\ \E w \in webhooks : w.id = 2 /\ w.isActive /\ w.merchantId = "m1"
  /\ Cardinality(jobs) = 1 /\ uuids = 1
  /\ \A j \in jobs : j.webhookId = 2 /\ j.type = "payment.voided"

\* C24: a notification whose endpoint lookup or enqueueing fails leaves the
\* stored transactions and the result returned by the operation that raised
\* it as they were.
C24_NotificationFailureIsHarmless ==
  [][\A t \in TxIds, e \in EventTypes, f \in Faults \ {"none"} :
       notified' # notified /\ settleNotification(t, e, f) =>
         txs' = txs /\ resp' = resp]_vars

\* The notification of a capture found its endpoint and failed to enqueue;
\* the capture is stored and was answered as captured.
C24_Witness ==
  \E t \in TxIds :
    /\ notified[t]["payment.captured"] = 1 /\ notified[t]["payment.authorized"] = 1
    /\ webhooks # {} /\ uuids = 1 /\ jobs = {}
    /\ txs[t].status = "captured"
    /\ resp.op = "capture" /\ resp.tid = t /\ resp.status = "captured"

\* The receiver's check of a request: the header is sha256= followed by the
\* HMAC-SHA256 of the received body under the secret it holds.
Verifies(header, body, secret) ==
  header = [scheme |-> "sha256=", hex |-> hmac(secret, body)]

\* C25: the signature header of every delivery verifies against the body
\* sent in the same request under the secret of the endpoint it goes to, and
\* under no other secret.
C25_SignatureOfSentBody ==
  delivery.sent =>
    \E w \in webhooks :
      /\ w.id = delivery.webhookId
      /\ Verifies(delivery.signature, delivery.body, w.secret)
      /\ \A c \in Secrets \ {w.secret} :
           ~Verifies(delivery.signature, delivery.body, c)

\* Endpoints with the secrets S1 and S2 are registered and the last delivery
\* went to the one with S1.
C25_Witness ==
  /\ delivery.sent
  /\ \E w1, w2 \in webhooks :
       /\ w1.secret = "S1" /\ w2.secret = "S2"
       /\ delivery.webhookId = w1.id
       /\ Verifies(delivery.signature, delivery.body, "S1")
       /\ ~Verifies(delivery.signature, delivery.body, "S2")
\* C26 (as stated): at most one expiry scan is in flight at any time, and a
\* timer tick that fires while a scan is running neither starts nor queues
\* another scan.
C26_TickDuringScanQueuesNothing ==
  /\ [](sys.scanning <= 1)
  /\ [][timerTick /\ sys.scanning > 0
          => sys'.scanning = sys.scanning /\ sys'.waiting = sys.waiting]_vars

\* C26 (amended): at most one expiry scan is in flight at any time; a timer
\* tick that fires while a scan is running starts no scan, but it does queue
\* one scan job, which the worker takes only when no scan is in flight.
C26_TickDuringScanStartsNothing ==
  /\ [](sys.scanning <= 1)
  /\ [][timerTick /\ sys.scanning > 0
          => sys'.scanning = sys.scanning /\ sys'.waiting = sys.waiting + 1]_vars
  /\ [][scanStart => sys.scanning = 0 /\ sys'.scanning = 1]_vars

\* A scan is in flight and the job queued by a tick that fired during a scan
\* is still waiting behind it.
C26_Witness ==
  /\ sys.scanning = 1
  /\ sys.overlaps > 0
  /\ sys.waiting > 0

\* C27: startExpiryScheduler enqueues one scan at once and sets up the one
\* interval timer; a further call while the scheduler runs enqueues nothing
\* and sets up no second timer.
C27_StartsOnce ==
  [][sys'.starts = sys.starts + 1 =>
       IF sys.schedulerInterval
       THEN /\ sys'.added = sys.added
            /\ sys'.waiting = sys.waiting
            /\ sys'.timers = sys.timers
       ELSE /\ sys'.added = sys.added + 1
            /\ sys'.waiting = sys.waiting + 1
            /\ sys'.timers = 1
            /\ sys'.schedulerInterval]_vars

\* The scheduler has been started twice, and there is one timer and the one
\* scan job the first call queued.
C27_Witness ==
  /\ sys.starts = 2
  /\ sys.timers = 1
  /\ sys.added = 1
  /\ sys.schedulerInterval

\* C28: on shutdown the notification queue and the connection are closed only
\* after inbound operations have stopped being accepted and the expiry timer
\* and both workers have been stopped.
C28_ShutdownOrder ==
  (sys.webhookQueue = "closed" \/ sys.redis = "closed") =>
     /\ ~sys.accepting
     /\ sys.timers = 0
     /\ ~sys.expiryWorker
     /\ ~sys.webhookWorker

\* C29: when a repository create or update is rejected during authorize,
\* capture, void, refund or expireAuthorization, the call ends in that
\* failure (it is thrown to the caller) and the call attempts no further
\* write.
C29_WriteFailurePropagates ==
  resp.rejected > 0 => resp.thrown /\ resp.rewrites = 0

\* C30: the status a call of authorize, capture, void or refund returns is
\* the status stored for the transaction when the call returns.
C30_ReturnedStatusIsStored ==
  [][/\ resp' # resp
     /\ resp'.op \in {"authorize", "capture", "void", "refund"}
     /\ txs'[resp'.tid].status # "none"
     => resp'.status = txs'[resp'.tid].status]_vars

\* C30 (amended): the status a call of authorize, capture, void or refund
\* returns for a stored transaction is the status stored for it when the call
\* returns, except for a refund the issuer did not accept: that call returns
\* failed and the stored status stays as it was.
C30_ReturnedStatusIsStoredUnlessRefundFailed ==
  [][/\ resp' # resp
     /\ resp'.op \in {"authorize", "capture", "void", "refund"}
     /\ txs'[resp'.tid].status # "none"
     => IF resp'.op = "refund" /\ resp'.wire = "failure"
        THEN resp'.status = "failed" /\ txs'[resp'.tid] = txs[resp'.tid]
        ELSE resp'.status = txs'[resp'.tid].status]_vars

\* A capture has returned failed for a transaction now stored as failed.
C30_Witness ==
  /\ resp.op = "capture"
  /\ resp.wire = "failure"
  /\ resp.status = "failed"
  /\ txs[resp.tid].status = "failed"

\* The number of notification events raised for transaction t so far.
RECURSIVE SumOver(_, _)
SumOver(f, S) ==
  IF S = {} THEN 0
  ELSE LET x == CHOOSE y \in S : TRUE IN f[x] + SumOver(f, S \ {x})

\* C31: every authorize call persists exactly one new transaction, whose
\* status is authorized exactly when the issuer approved, and raises exactly
\* one notification event, of the type that matches the persisted status.
C31_AuthorizePersistsAndNotifiesOnce ==
  [][\A t \in TxIds :
       issuerCalls'[t]["authorize"] = issuerCalls[t]["authorize"] + 1 =>
         /\ txs[t].status = "none"
         /\ txs'[t].status \in {"authorized", "declined", "failed"}
         /\ \A u \in TxIds \ {t} : txs'[u] = txs[u]
         /\ txs'[t].status = "authorized" <=> resp'.wire = "approved"
         /\ resp'.status = txs'[t].status
         /\ raised' = Bump(raised, t,
                           CASE txs'[t].status = "authorized" -> "payment.authorized"
                             [] txs'[t].status = "declined" -> "payment.declined"
                             [] OTHER -> "payment.failed")
         /\ SumOver(raised'[t], EventTypes) = SumOver(raised[t], EventTypes) + 1]_vars

\* An authorize the issuer declined has stored its transaction and raised
\* payment.declined once.
C31_Witness ==
  /\ resp.op = "authorize"
  /\ resp.wire = "declined"
  /\ txs[resp.tid].status = "declined"
  /\ raised[resp.tid]["payment.declined"] = 1
  /\ SumOver(raised[resp.tid], EventTypes) = 1

\* C32: a capture of a transaction read as authorized takes the requested
\* amount, or the full authorized amount when the request names none, and
\* when its issuer call succeeds it stores status captured and that amount
\* as capturedAmount.
C32_CaptureAmount ==
  /\ [][\A t \in TxIds, q \in RequestAmounts :
          Begin("capture", t, {q}) /\ inflight' # inflight =>
            LET c == Call("capture", t,
                          IF q = NoAmount THEN txs[t].amount ELSE q, txs[t])
            IN /\ txs[t].status = "authorized"
               /\ inflight' = inflight (+) SetToBag({c})]_vars
  /\ [][\A call \in BagToSet(inflight) :
          captureFinish(call, "success") =>
            /\ txs'[call.tid].status = "captured"
            /\ txs'[call.tid].capturedAmount = call.amount
            /\ resp'.status = "captured"
            /\ resp'.outAmount = call.amount]_vars

\* A capture without an amount has succeeded and stored the full authorized
\* amount as capturedAmount.
C32_Witness ==
  /\ resp.op = "capture"
  /\ resp.wire = "success"
  /\ txs[resp.tid].status = "captured"
  /\ txs[resp.tid].capturedAmount = txs[resp.tid].amount
  /\ txs[resp.tid].amount = MaxAmount

\* C33: along every execution, concurrent operations on one transaction
\* included, a transaction's capturedAmount and refundedAmount never
\* decrease.
C33_AmountsNeverDecrease ==
  [][\A t \in TxIds :
       /\ txs'[t].capturedAmount >= txs[t].capturedAmount
       /\ txs'[t].refundedAmount >= txs[t].refundedAmount]_vars

\* C34: for each transaction the issuer's capture is invoked at most once
\* over all capture calls for it, re-delivered and concurrent calls included.
C34_IssuerCaptureAtMostOnce ==
  \A t \in TxIds : issuerCalls[t]["capture"] <= 1

\* C35: under every interleaving of capture, void and expireAuthorization, a
\* transaction for which a capture call has returned status captured is not
\* afterwards stored as expired, voided or failed.
C35_CapturedStaysCaptured ==
  \A t \in TxIds :
    raised[t]["payment.captured"] > 0 =>
      txs[t].status \notin {"expired", "voided", "failed"}

Terminal == {"declined", "failed", "voided", "expired", "refunded"}

\* C36: once the stored status of a transaction is declined, failed, voided,
\* expired or refunded, no call of capture, void, refund or
\* expireAuthorization changes its status, its capturedAmount or its
\* refundedAmount.
C36_TerminalIsFinal ==
  [][\A t \in TxIds :
       txs[t].status \in Terminal =>
         /\ txs'[t].status = txs[t].status
         /\ txs'[t].capturedAmount = txs[t].capturedAmount
         /\ txs'[t].refundedAmount = txs[t].refundedAmount]_vars

\* C37: for every token, the issuer id PaymentService.authorize chooses
\* through analyzeCardToken (and stores with the transaction) is the issuer
\* id the registry's extractBsimIdFromToken gives for the same token.
C37_SameIssuerAsRegistry ==
  resp.op = "authorize" =>
    txs[resp.tid].bsimId = extractBsimIdFromToken(resp.cardToken)

\* The authorize of transaction t ended in a decline or a failure.
RefusedAtAuthorize(t) ==
  raised[t]["payment.declined"] + raised[t]["payment.failed"] > 0

C39_StopReleasesAndRestartIsSingle ==
  /\ [][sys'.stops = sys.stops + 1 =>
          /\ sys'.timers = 0
          /\ ~sys'.schedulerInterval
          /\ ~sys'.expiryWorker
          /\ sys'.expiryQueue # "open"]_vars
  /\ [][sys.timers = 0 /\ sys'.added # sys.added =>
          /\ sys'.starts = sys.starts + 1
          /\ sys'.added = sys.added + 1
          /\ sys'.timers = 1
          /\ sys'.expiryQueue = "open"]_vars

\* The scheduler has been stopped and started again: one timer runs, on a new
\* queue, and the worker the stop closed is gone.
C39_Witness ==
  /\ sys.stops = 1
  /\ sys.starts = 2
  /\ sys.timers = 1
  /\ sys.expiryQueue = "open"
  /\ ~sys.expiryWorker
  /\ sys.pc = "up"

====
